---- MODULE Spec2Model ----
(***************************************************************************)
(* relstorage._compat: the OID/TID data-structure shims.                   *)
(*                                                                         *)
(* The module body runs once, at import: it tests which BTrees             *)
(* implementation is loaded and binds the map/set types and the set        *)
(* algebra to it (lines 96-143), then probes array.array for an unsigned   *)
(* 64-bit element type and binds OidList/TidList (lines 209-226).          *)
(* Afterwards consumers create instances of the bound types and call the   *)
(* bound functions on them, from several threads.                          *)
(*                                                                         *)
(* A collection is a record [kind, keys, vals]:                            *)
(*   kind  the class of the instance,                                      *)
(*   keys  its keys in the order its iterator yields them,                 *)
(*   vals  the values, aligned with keys (empty for the set classes).      *)
(* dict keeps insertion order (CPython 3.6+, PyPy); the BTrees classes     *)
(* keep their keys sorted; a hash set of small non-negative integers is    *)
(* held with its elements ascending (a set has no order to speak of).      *)
(***************************************************************************)
EXTENDS Integers, Sequences, FiniteSets, TLC

VARIABLES
    env,        \* the platform facts the module body tests
    pc,          \* position of the module body (the import)
    mod,         \* the module's globals bound so far
    family,      \* which family of instances the consumer works on
    a, b,        \* two shared OidTidMap / OidObjectMap instances
    s, t, u,     \* three shared OidSet instances
    res,         \* the outcome of the last call of a module function
    wr,          \* the writer thread: its position and its operation
    rd,          \* the reader thread: its last point lookup
    df,          \* the thread running OidTMap_difference(a, b)
    hist         \* contents of a and b seen since difference(a, b) began

vars == <<env, pc, mod, family, a, b, s, t, u, res, wr, rd, df, hist>>

\* ----------------------------------------------------------------- bounds
\* OIDs are 0..MaxOid, TIDs are 1..MaxTid
MaxOid == 2
MaxTid == 2
\* the instances under test hold at most MaxLen entries between them
MaxLen == 3
\* the longest sequence handed to OidTMap_multiunion
MaxSeq == 3
\* entries a and b hold between them when difference(a, b) is called, and
\* point writes another thread performs while it runs
MaxPre == 1
MaxMut == 1

Oids == 0..MaxOid
Tids == 1..MaxTid

\* ------------------------------------------------------- platform facts
\* cext:      the BTrees C extensions are loaded (BTrees builds and loads
\*            them as a unit; without them every BTrees class is the *Py one)
\* PY3:       sys.version_info[0] == 3
\* longlong:  the interpreter was compiled with 'long long' support
\* itemsizeL: sizeof(unsigned long)
\* PYPY:      platform.python_implementation() == 'PyPy'
Envs == [cext : BOOLEAN, PY3 : BOOLEAN, longlong : BOOLEAN,
         itemsizeL : {4, 8}, PYPY : BOOLEAN]

\* BTrees.LLBTree.<name>: the C class with the extension, else the Py class
BTrees_LLBTree(e, name) == IF e.cext THEN name ELSE name \o "Py"
\* BTrees.family64.II is BTrees.LLBTree, BTrees.family64.IO is BTrees.LOBTree
BTrees_family64(e, mname, name) ==
    IF e.cext THEN mname \o name ELSE mname \o name \o "Py"

PyClasses == {"LLBTreePy", "LOBTreePy", "LLTreeSetPy"}

Unbound == "unbound"

\* ------------------------------------------------ lines 84-94: dict support
iterkeysBinding(e) == IF e.PY3 THEN "dict.keys" ELSE "dict.iterkeys"

\* --------------------------------------- lines 102-143: maps, sets, algebra
HasCBTree_Inverted(e) == BTrees_LLBTree(e, "LLBTree") = "LLBTreePy"

\* the test of line 102
HasCBTree(e) == BTrees_LLBTree(e, "LLBTree") # "LLBTreePy"

MapBindings_AcceptPy(e) ==
    [OID_TID_MAP_TYPE    |-> BTrees_family64(e, "LL", "BTree"),
     OID_OBJECT_MAP_TYPE |-> BTrees_family64(e, "LO", "BTree"),
     OID_SET_TYPE        |-> BTrees_family64(e, "LL", "TreeSet"),
     algebra             |-> "BTrees"]

MapBindings(e) ==
    IF HasCBTree(e)
    THEN [OID_TID_MAP_TYPE    |-> BTrees_family64(e, "LL", "BTree"),
          OID_OBJECT_MAP_TYPE |-> BTrees_family64(e, "LO", "BTree"),
          OID_SET_TYPE        |-> BTrees_family64(e, "LL", "TreeSet"),
          algebra             |-> "BTrees"]
    ELSE [OID_TID_MAP_TYPE    |-> "dict",
          OID_OBJECT_MAP_TYPE |-> "dict",
          OID_SET_TYPE        |-> "set",
          algebra             |-> "python"]

\* ------------------------------------------- lines 209-226: OidList, TidList
\* array.array('Q', [1]): 'Q' exists on Python 3 built with long long,
\* anything else raises ValueError
ArrayAccepts_Q(e) == e.PY3 /\ e.longlong

LongIsWide_Any(e) == e.itemsizeL >= 4

\* line 219: a.itemsize >= 8
LongIsWide(e) == e.itemsizeL >= 8

\* lines 222-225
SelectOidList(arr, e) == IF arr # "None" /\ ~e.PYPY THEN "array." \o arr ELSE "list"

Globals0 ==
    [iterkeys |-> Unbound,
     OID_TID_MAP_TYPE |-> Unbound, OID_OBJECT_MAP_TYPE |-> Unbound,
     OID_SET_TYPE |-> Unbound, algebra |-> Unbound,
     array64 |-> Unbound, OidList |-> Unbound, TidList |-> Unbound,
     raised |-> "None"]

\* ------------------------------------------------------ the module body
\* Each step is what one statement group of the module body does to the
\* globals; the import runs them in order.
StepDictSupport(m, e) == [m EXCEPT !.iterkeys = iterkeysBinding(e)]

StepMaps(m, e) ==
    LET bnd == MapBindings(e) IN
    [m EXCEPT !.OID_TID_MAP_TYPE = bnd.OID_TID_MAP_TYPE,
              !.OID_OBJECT_MAP_TYPE = bnd.OID_OBJECT_MAP_TYPE,
              !.OID_SET_TYPE = bnd.OID_SET_TYPE,
              !.algebra = bnd.algebra]

\* line 209
StepArrayInit(m) == [m EXCEPT !.array64 = "None"]

\* lines 210-213: the try body; line 213 runs only when line 212 did not raise
StepTryQ(m, e) == IF ArrayAccepts_Q(e) THEN [m EXCEPT !.array64 = "Q"] ELSE m

\* lines 214-220: the handler; array.array('L', [1]) is always accepted
StepTryL(m, e) == IF LongIsWide(e) THEN [m EXCEPT !.array64 = "L"] ELSE m

\* lines 222-225
StepSelectList(m, e) == [m EXCEPT !.OidList = SelectOidList(m.array64, e)]

\* line 226
StepTidList(m) == [m EXCEPT !.TidList = m.OidList]

\* the globals once the import is over
ImportedGlobals(e) ==
    LET m1 == StepMaps(StepDictSupport(Globals0, e), e)
        m2 == StepTryQ(StepArrayInit(m1), e)
        m3 == IF ArrayAccepts_Q(e) THEN m2 ELSE StepTryL(m2, e)
    IN  StepTidList(StepSelectList(m3, e))

\* ---------------------------------------------------- instances and threads
New(cls) == [kind |-> cls, keys |-> <<>>, vals |-> <<>>]

NoRes == [op |-> "none", raised |-> "None", num |-> 0, out |-> New("none"),
          args |-> <<>>, x |-> 0, before |-> <<>>]
Idle == [pc |-> "idle", op |-> "none", k |-> 0, v |-> 0, pre |-> [k \in Oids |-> 0]]
NoRead == [did |-> FALSE, k |-> 0, obs |-> 0, before |-> 0, wk |-> -1, after |-> 0]
NoDiff == [pc |-> "idle", c1 |-> New("none"), s1 |-> New("none"),
           s2 |-> New("none"), out |-> New("none"), raised |-> "None",
           muts |-> 0]
NoHist == [a |-> <<>>, b |-> <<>>]

instVars == <<family, a, b, s, t, u, res>>
thrVars == <<wr, rd, df, hist>>

NoInstances ==
    /\ family = "none"
    /\ a = New("none") /\ b = New("none")
    /\ s = New("none") /\ t = New("none") /\ u = New("none")
    /\ res = NoRes

NoThreads == wr = Idle /\ rd = NoRead /\ df = NoDiff /\ hist = NoHist

\* ------------------------------------------------ the classes' own methods
\* What the bound classes do: dict and set are the interpreter's, the others
\* are BTrees'. The module calls them; it defines none of them.
MapClasses == {"dict", "LLBTree", "LOBTree", "LLBucket", "LLBTreePy", "LOBTreePy"}
IsMap(c) == c.kind \in MapClasses

Size(c) == Len(c.keys)
Has(c, k) == \E i \in 1..Len(c.keys) : c.keys[i] = k
Index(c, k) == CHOOSE i \in 1..Len(c.keys) : c.keys[i] = k
KeySet(c) == {c.keys[i] : i \in 1..Len(c.keys)}
\* the mapping (or, for a set class, the element set) an instance holds
Content(c) ==
    IF IsMap(c) THEN [k \in KeySet(c) |-> c.vals[Index(c, k)]] ELSE KeySet(c)

RemoveAt(q, i) == SubSeq(q, 1, i - 1) \o SubSeq(q, i + 1, Len(q))
InsertAt(q, i, x) == SubSeq(q, 1, i - 1) \o <<x>> \o SubSeq(q, i, Len(q))
\* where a sorted class files a new key: after every smaller key
Slot(c, k) == Cardinality({i \in 1..Len(c.keys) : c.keys[i] < k}) + 1
\* where a class files a new key: dict appends, the others keep order
Place(c, k) == IF c.kind = "dict" THEN Len(c.keys) + 1 ELSE Slot(c, k)

\* c[k] = v
SetItem(c, k, v) ==
    IF Has(c, k)
    THEN [c EXCEPT !.vals[Index(c, k)] = v]
    ELSE [c EXCEPT !.keys = InsertAt(c.keys, Place(c, k), k),
                   !.vals = InsertAt(c.vals, Place(c, k), v)]

\* del c[k], for a key c holds
DelItem(c, k) ==
    [c EXCEPT !.keys = RemoveAt(c.keys, Index(c, k)),
              !.vals = RemoveAt(c.vals, Index(c, k))]

\* c[k] / c.get(k): the value filed at the key's position
GetItem(c, k) ==
    IF ~Has(c, k) THEN [raised |-> "KeyError", val |-> 0]
    ELSE IF Index(c, k) > Len(c.vals) THEN [raised |-> "IndexError", val |-> 0]
    ELSE [raised |-> "None", val |-> c.vals[Index(c, k)]]

\* s.add(k)
SetAdd(c, k) ==
    IF Has(c, k) THEN c ELSE [c EXCEPT !.keys = InsertAt(c.keys, Slot(c, k), k)]

\* s.remove(k): KeyError when k is not an element (set and TreeSet alike)
SetRemove(c, k) ==
    IF Has(c, k)
    THEN [raised |-> "None", c |-> [c EXCEPT !.keys = RemoveAt(c.keys, Index(c, k))]]
    ELSE [raised |-> "KeyError", c |-> c]

\* set.discard(s, k)
set_discard(c, k) ==
    IF Has(c, k) THEN [c EXCEPT !.keys = RemoveAt(c.keys, Index(c, k))] ELSE c

\* set(c): a new set of what iterating c yields
RECURSIVE AddAll(_, _)
AddAll(acc, q) == IF q = <<>> THEN acc ELSE AddAll(SetAdd(acc, Head(q)), Tail(q))
set_new(c) == AddAll(New("set"), c.keys)

\* dict(c): a new dict with c's items, in c's order
dict_new(c) == [kind |-> "dict", keys |-> c.keys, vals |-> c.vals]

\* x - y on sets
set_sub(x, y) == [x EXCEPT !.keys = SelectSeq(x.keys, LAMBDA k : ~Has(y, k))]

\* x.intersection(y)
set_intersection(x, y) == [x EXCEPT !.keys = SelectSeq(x.keys, LAMBDA k : Has(y, k))]

\* set().union(*seq)
RECURSIVE set_union(_, _)
set_union(acc, seq) ==
    IF seq = <<>> THEN acc ELSE set_union(AddAll(acc, Head(seq).keys), Tail(seq))

\* max(iterable): ValueError on an empty one
RECURSIVE MaxOf(_, _)
MaxOf(best, q) ==
    IF q = <<>> THEN best
    ELSE MaxOf(IF Head(q) > best THEN Head(q) ELSE best, Tail(q))
py_max(q) ==
    IF q = <<>> THEN [raised |-> "ValueError", num |-> 0]
    ELSE [raised |-> "None", num |-> MaxOf(Head(q), Tail(q))]

\* bt.maxKey(): the last key of the tree; ValueError on an empty tree
maxKey(c) ==
    IF c.keys = <<>> THEN [raised |-> "ValueError", num |-> 0]
    ELSE [raised |-> "None", num |-> c.keys[Len(c.keys)]]

\* BTrees' set_operation: one merge pass over two sorted key sequences that
\* keeps the keys only in the first (only1) and / or in both (both), with
\* the first operand's values when keepVals
RECURSIVE Merge(_, _, _, _, _, _, _)
Merge(c1, i, c2, j, only1, both, acc) ==
    IF i > Len(c1.keys) THEN acc
    ELSE IF j > Len(c2.keys) \/ c1.keys[i] < c2.keys[j]
    THEN Merge(c1, i + 1, c2, j, only1, both,
               IF only1
               THEN [acc EXCEPT !.keys = Append(@, c1.keys[i]),
                                !.vals = IF IsMap(acc) THEN Append(@, c1.vals[i]) ELSE @]
               ELSE acc)
    ELSE IF c1.keys[i] = c2.keys[j]
    THEN Merge(c1, i + 1, c2, j + 1, only1, both,
               IF both
               THEN [acc EXCEPT !.keys = Append(@, c1.keys[i]),
                                !.vals = IF IsMap(acc) THEN Append(@, c1.vals[i]) ELSE @]
               ELSE acc)
    ELSE Merge(c1, i, c2, j + 1, only1, both, acc)

\* BTrees.family64.II.difference: a Bucket for a mapping c1, a Set otherwise
II_difference(c1, c2) ==
    Merge(c1, 1, c2, 1, TRUE, FALSE, New(IF IsMap(c1) THEN "LLBucket" ELSE "LLSet"))

\* BTrees.family64.II.intersection: a Set of the common keys
II_intersection(c1, c2) == Merge(c1, 1, c2, 1, FALSE, TRUE, New("LLSet"))

\* BTrees.family64.II.multiunion: all keys gathered, sorted, duplicates dropped
RECURSIVE Gather(_)
Gather(seq) == IF seq = <<>> THEN <<>> ELSE Head(seq).keys \o Gather(Tail(seq))
RECURSIVE SortInts(_)
SortInts(q) ==
    IF q = <<>> THEN <<>>
    ELSE LET rest == SortInts(Tail(q))
             x == Head(q)
         IN  SelectSeq(rest, LAMBDA y : y <= x) \o <<x>>
                 \o SelectSeq(rest, LAMBDA y : y > x)
RECURSIVE Uniq(_)
Uniq(q) ==
    IF Len(q) < 2 THEN q
    ELSE IF q[1] = q[2] THEN Uniq(Tail(q)) ELSE <<q[1]>> \o Uniq(Tail(q))
II_multiunion(seq) == [New("LLSet") EXCEPT !.keys = Uniq(SortInts(Gather(seq)))]

\* ------------------------------------------- lines 106-143: the algebra
\* A call's outcome: what it raised, the collection or number it returned,
\* and its arguments as the call left them.
Outcome(raised, out, num, after) ==
    [raised |-> raised, out |-> out, num |-> num, after |-> after]

\* line 126, c1 = dict(c1): the local name now holds a private copy
Line126_NoCopy(c1) == [kind |-> "alias", keys |-> <<>>, vals |-> <<>>]

Line126(c1) == dict_new(c1)

\* what a local name stands for: its own object, or the caller's
Resolve(local, shared) == IF local.kind = "alias" THEN shared ELSE local

\* line 127, one round of the comprehension: out[k] = c1[k]
CompStep(src, k, out) ==
    LET g == GetItem(src, k) IN
    IF g.raised # "None" THEN [raised |-> g.raised, out |-> out]
    ELSE [raised |-> "None", out |-> SetItem(out, k, g.val)]

RECURSIVE DictComp(_, _, _)
DictComp(src, todo, out) ==
    IF todo = <<>> THEN [raised |-> "None", out |-> out]
    ELSE LET r == CompStep(src, Head(todo), out) IN
         IF r.raised # "None" THEN r ELSE DictComp(src, Tail(todo), r.out)

\* lines 124-127
OidTMap_difference_Swapped(c1, c2) ==
    LET src == Resolve(Line126(c1), c1)
        d == DictComp(src, set_sub(set_new(c2), set_new(src)).keys, New("dict"))
    IN  Outcome(d.raised, d.out, 0, <<c1, c2>>)

OidTMap_difference_python(c1, c2) ==
    LET src == Resolve(Line126(c1), c1)
        d == DictComp(src, set_sub(set_new(src), set_new(c2)).keys, New("dict"))
    IN  Outcome(d.raised, d.out, 0, <<c1, c2>>)

\* line 106 / lines 124-127
OidTMap_difference(m, c1, c2) ==
    IF m.algebra = "BTrees"
    THEN Outcome("None", II_difference(c1, c2), 0, <<c1, c2>>)
    ELSE OidTMap_difference_python(c1, c2)

\* line 109 / lines 135-136
OidSet_difference(m, c1, c2) ==
    IF m.algebra = "BTrees"
    THEN OidTMap_difference(m, c1, c2)
    ELSE Outcome("None", set_sub(set_new(c1), set_new(c2)), 0, <<c1, c2>>)

\* line 107 / lines 129-130
OidTMap_multiunion_SkipsFirst(m, seq) ==
    LET rest == IF seq = <<>> THEN seq ELSE Tail(seq) IN
    IF m.algebra = "BTrees"
    THEN Outcome("None", II_multiunion(rest), 0, seq)
    ELSE Outcome("None", set_union(New("set"), rest), 0, seq)

OidTMap_multiunion(m, seq) ==
    IF m.algebra = "BTrees"
    THEN Outcome("None", II_multiunion(seq), 0, seq)
    ELSE Outcome("None", set_union(New("set"), seq), 0, seq)

\* line 108 / lines 132-133
OidTMap_intersection_AsDifference(m, c1, c2) ==
    IF m.algebra = "BTrees"
    THEN Outcome("None", II_difference(c1, c2), 0, <<c1, c2>>)
    ELSE Outcome("None", set_sub(set_new(c1), set_new(c2)), 0, <<c1, c2>>)

OidTMap_intersection(m, c1, c2) ==
    IF m.algebra = "BTrees"
    THEN Outcome("None", II_intersection(c1, c2), 0, <<c1, c2>>)
    ELSE Outcome("None", set_intersection(set_new(c1), set_new(c2)), 0, <<c1, c2>>)

\* lines 110-114 / line 138
OidSet_discard_Uncaught(m, c, val) ==
    IF m.algebra = "BTrees"
    THEN LET r == SetRemove(c, val) IN Outcome(r.raised, New("none"), 0, <<r.c>>)
    ELSE Outcome("None", New("none"), 0, <<set_discard(c, val)>>)

OidSet_discard(m, c, val) ==
    IF m.algebra = "BTrees"
    THEN LET r == SetRemove(c, val) IN
         Outcome(IF r.raised = "KeyError" THEN "None" ELSE r.raised,
                 New("none"), 0, <<r.c>>)
    ELSE Outcome("None", New("none"), 0, <<set_discard(c, val)>>)

\* lines 116-119 / lines 140-143
OidObjectMap_max_key_Unguarded(m, c) ==
    LET r == IF m.algebra = "BTrees" THEN maxKey(c) ELSE py_max(c.keys)
    IN  Outcome(r.raised, New("none"), r.num, <<c>>)

OidObjectMap_max_key(m, c) ==
    IF Size(c) = 0 THEN Outcome("None", New("none"), 0, <<c>>)
    ELSE LET r == IF m.algebra = "BTrees" THEN maxKey(c) ELSE py_max(c.keys)
         IN  Outcome(r.raised, New("none"), r.num, <<c>>)

\* lines 229-232: the (key, value) pairs in the order the instance yields them
iteroiditems_Reversed(c) ==
    Outcome("None",
            [kind |-> "items",
             keys |-> [i \in 1..Len(c.keys) |-> c.keys[Len(c.keys) + 1 - i]],
             vals |-> [i \in 1..Len(c.vals) |-> c.vals[Len(c.vals) + 1 - i]]],
            0, <<c>>)

iteroiditems(c) ==
    Outcome("None", [kind |-> "items", keys |-> c.keys, vals |-> c.vals], 0, <<c>>)

\* ------------------------------------------------------------ the import
InitImport ==
    /\ env \in Envs
    /\ pc = "dict_support"
    /\ mod = Globals0
    /\ NoInstances
    /\ NoThreads

BindDictSupport ==
    /\ pc = "dict_support"
    /\ mod' = StepDictSupport(mod, env)
    /\ pc' = "maps"
    /\ UNCHANGED <<env, instVars, thrVars>>

BindMaps ==
    /\ pc = "maps"
    /\ mod' = StepMaps(mod, env)
    /\ pc' = "array_init"
    /\ UNCHANGED <<env, instVars, thrVars>>

InitArray ==
    /\ pc = "array_init"
    /\ mod' = StepArrayInit(mod)
    /\ pc' = "try_Q"
    /\ UNCHANGED <<env, instVars, thrVars>>

TryQ ==
    /\ pc = "try_Q"
    /\ mod' = StepTryQ(mod, env)
    /\ pc' = IF ArrayAccepts_Q(env) THEN "select" ELSE "except_ValueError"
    /\ UNCHANGED <<env, instVars, thrVars>>

TryL ==
    /\ pc = "except_ValueError"
    /\ mod' = StepTryL(mod, env)
    /\ pc' = "select"
    /\ UNCHANGED <<env, instVars, thrVars>>

SelectList ==
    /\ pc = "select"
    /\ mod' = StepSelectList(mod, env)
    /\ pc' = "tidlist"
    /\ UNCHANGED <<env, instVars, thrVars>>

BindTidList ==
    /\ pc = "tidlist"
    /\ mod' = StepTidList(mod)
    /\ pc' = "done"
    /\ UNCHANGED <<env, instVars, thrVars>>

NextImport ==
    \/ BindDictSupport \/ BindMaps \/ InitArray \/ TryQ \/ TryL
    \/ SelectList \/ BindTidList

SpecImport == InitImport /\ [][NextImport]_vars

\* ------------------------------------------------------------------ C1
MapsBound == pc \notin {"dict_support", "maps"}

\* C1: once line 102 has been decided, the three selectors are the C
\* classes of family64 II / IO when LLBTree is not LLBTreePy and dict, dict,
\* set otherwise; none of them is ever a pure-Python BTrees class; and no
\* later step of the module body rebinds them.
C1_BindingDecidedOnce ==
    /\ [](MapsBound =>
            /\ (BTrees_LLBTree(env, "LLBTree") # "LLBTreePy") =>
                   /\ mod.OID_TID_MAP_TYPE = "LLBTree"
                   /\ mod.OID_OBJECT_MAP_TYPE = "LOBTree"
                   /\ mod.OID_SET_TYPE = "LLTreeSet"
            /\ (BTrees_LLBTree(env, "LLBTree") = "LLBTreePy") =>
                   /\ mod.OID_TID_MAP_TYPE = "dict"
                   /\ mod.OID_OBJECT_MAP_TYPE = "dict"
                   /\ mod.OID_SET_TYPE = "set"
            /\ {mod.OID_TID_MAP_TYPE, mod.OID_OBJECT_MAP_TYPE,
                mod.OID_SET_TYPE} \cap PyClasses = {})
    /\ [][MapsBound =>
            /\ mod'.OID_TID_MAP_TYPE = mod.OID_TID_MAP_TYPE
            /\ mod'.OID_OBJECT_MAP_TYPE = mod.OID_OBJECT_MAP_TYPE
            /\ mod'.OID_SET_TYPE = mod.OID_SET_TYPE]_vars

C1_Witness ==
    /\ pc = "done"
    /\ ~env.cext
    /\ mod.OID_TID_MAP_TYPE = "dict"
    /\ mod.OID_SET_TYPE = "set"

\* ------------------------------------------------------------------ C10
\* C10: when the import is over, 'Q' was taken if array.array accepts it,
\* else 'L' if an unsigned long has at least 8 bytes, else nothing; OidList
\* is the packed array exactly when a code was taken and the runtime is not
\* PyPy, and list otherwise; TidList is OidList; nothing was raised.
C10_ListProbe ==
    LET acceptsQ == env.PY3 /\ env.longlong
        wideL == env.itemsizeL >= 8
    IN
    /\ mod.raised = "None"
    /\ pc = "done" =>
        /\ mod.array64 = (IF acceptsQ THEN "Q" ELSE IF wideL THEN "L" ELSE "None")
        /\ (mod.OidList \in {"array.Q", "array.L"}) <=> ((acceptsQ \/ wideL) /\ ~env.PYPY)
        /\ mod.OidList = (IF (acceptsQ \/ wideL) /\ ~env.PYPY
                          THEN "array." \o mod.array64 ELSE "list")
        /\ mod.TidList = mod.OidList

C10_Witness ==
    /\ pc = "done"
    /\ ~(env.PY3 /\ env.longlong)
    /\ env.itemsizeL >= 8
    /\ ~env.PYPY
    /\ mod.OidList = "array.L"

\* ------------------------------------------- consumers calling the algebra
\* The consumer holds instances of the bound types (two maps, or three
\* sets), fills them by point writes in any order and calls the module's
\* functions on them. res is the outcome of the call just made.
InstEnvs == {e \in Envs : e.PY3 /\ e.longlong /\ e.itemsizeL = 8 /\ e.PYPY = ~e.cext}

Inst(n) ==
    CASE n = "a" -> a [] n = "b" -> b [] n = "s" -> s [] n = "t" -> t [] n = "u" -> u

Names == IF family = "set" THEN {"s", "t", "u"}
         ELSE IF family = "tidmap" THEN {"a", "b"} ELSE {"a"}

Entries == Size(a) + Size(b) + Size(s) + Size(t) + Size(u)

\* the instance named n after a call that took argn and left `after`
After(n, argn, after) ==
    IF \E i \in 1..Len(argn) : argn[i] = n
    THEN after[CHOOSE i \in 1..Len(argn) : argn[i] = n]
    ELSE Inst(n)

Store(n, c) ==
    /\ a' = IF n = "a" THEN c ELSE a
    /\ b' = IF n = "b" THEN c ELSE b
    /\ s' = IF n = "s" THEN c ELSE s
    /\ t' = IF n = "t" THEN c ELSE t
    /\ u' = IF n = "u" THEN c ELSE u

\* the call's outcome becomes res, its arguments are left as the call left them
Called(op, argn, x, r) ==
    /\ res = NoRes
    /\ res' = [op |-> op, raised |-> r.raised, num |-> r.num, out |-> r.out,
               args |-> argn, x |-> x,
               before |-> [i \in 1..Len(argn) |-> Inst(argn[i])]]
    /\ a' = After("a", argn, r.after)
    /\ b' = After("b", argn, r.after)
    /\ s' = After("s", argn, r.after)
    /\ t' = After("t", argn, r.after)
    /\ u' = After("u", argn, r.after)
    /\ UNCHANGED <<env, pc, mod, family, thrVars>>

InitInstances(families) ==
    /\ env \in InstEnvs
    /\ pc = "done"
    /\ mod = ImportedGlobals(env)
    /\ family \in families
    /\ a = New(IF family = "tidmap" THEN mod.OID_TID_MAP_TYPE
               ELSE IF family = "objmap" THEN mod.OID_OBJECT_MAP_TYPE ELSE "none")
    /\ b = New(IF family = "tidmap" THEN mod.OID_TID_MAP_TYPE ELSE "none")
    /\ s = New(IF family = "set" THEN mod.OID_SET_TYPE ELSE "none")
    /\ t = s
    /\ u = s
    /\ res = NoRes
    /\ NoThreads

InitAlgebra == InitInstances({"tidmap", "objmap", "set"})
InitMaps == InitInstances({"tidmap", "objmap"})
InitSets == InitInstances({"set"})

\* m[k] = v
PutItem ==
    \E n \in Names, k \in Oids, v \in Tids :
        /\ family # "set"
        /\ res = NoRes
        /\ Has(Inst(n), k) \/ Entries < MaxLen
        /\ Store(n, SetItem(Inst(n), k, v))
        /\ UNCHANGED <<env, pc, mod, family, res, thrVars>>

\* del m[k]
PopItem ==
    \E n \in Names, k \in Oids :
        /\ family # "set"
        /\ res = NoRes
        /\ Has(Inst(n), k)
        /\ Store(n, DelItem(Inst(n), k))
        /\ UNCHANGED <<env, pc, mod, family, res, thrVars>>

\* s.add(k)
AddElem ==
    \E n \in Names, k \in Oids :
        /\ family = "set"
        /\ res = NoRes
        /\ Has(Inst(n), k) \/ Entries < MaxLen
        /\ Store(n, SetAdd(Inst(n), k))
        /\ UNCHANGED <<env, pc, mod, family, res, thrVars>>

CallOidTMapDifference ==
    \E x \in Names, y \in Names :
        /\ family = "tidmap"
        /\ Called("OidTMap_difference", <<x, y>>, 0,
                  OidTMap_difference(mod, Inst(x), Inst(y)))

CallOidSetDifference ==
    \E x \in Names, y \in Names :
        /\ family = "set"
        /\ Called("OidSet_difference", <<x, y>>, 0,
                  OidSet_difference(mod, Inst(x), Inst(y)))

CallMultiunion ==
    \E n \in 0..MaxSeq : \E argn \in [1..n -> Names] :
        /\ family = "set"
        /\ Called("OidTMap_multiunion", argn, 0,
                  OidTMap_multiunion(mod, [i \in 1..n |-> Inst(argn[i])]))

CallIntersection ==
    \E x \in Names, y \in Names :
        /\ family \in {"tidmap", "set"}
        /\ Called("OidTMap_intersection", <<x, y>>, 0,
                  OidTMap_intersection(mod, Inst(x), Inst(y)))

CallDiscard ==
    \E n \in Names, v \in Oids :
        /\ family = "set"
        /\ Called("OidSet_discard", <<n>>, v, OidSet_discard(mod, Inst(n), v))

CallMaxKey ==
    \E n \in Names :
        /\ family = "objmap"
        /\ Called("OidObjectMap_max_key", <<n>>, 0, OidObjectMap_max_key(mod, Inst(n)))

CallIterItems ==
    \E n \in Names :
        /\ family \in {"tidmap", "objmap"}
        /\ Called("iteroiditems", <<n>>, 0, iteroiditems(Inst(n)))

\* the caller takes the result; the next call or write may follow
Return ==
    /\ res # NoRes
    /\ res' = NoRes
    /\ UNCHANGED <<env, pc, mod, family, a, b, s, t, u, thrVars>>

NextAlgebra ==
    \/ Return
    \/ PutItem \/ PopItem \/ AddElem
    \/ CallOidTMapDifference \/ CallOidSetDifference \/ CallMultiunion
    \/ CallIntersection \/ CallDiscard \/ CallMaxKey \/ CallIterItems

\* maps and sets alike
SpecAlgebra == InitAlgebra /\ [][NextAlgebra]_vars

\* the consumer of the map types
NextMaps ==
    \/ Return
    \/ PutItem \/ PopItem
    \/ CallOidTMapDifference \/ CallIntersection \/ CallMaxKey \/ CallIterItems

SpecMaps == InitMaps /\ [][NextMaps]_vars

\* the consumer of the set type
NextSets ==
    \/ Return
    \/ AddElem
    \/ CallOidSetDifference \/ CallMultiunion \/ CallIntersection \/ CallDiscard

SpecSets == InitSets /\ [][NextSets]_vars

\* --------------------------------------------------- claims on the algebra
Ascending(q) == \A i \in 1..Len(q) : \A j \in 1..Len(q) : i < j => q[i] < q[j]
NoDuplicates(c) == Len(c.keys) = Cardinality(KeySet(c))
ArgsUntouched == \A i \in 1..Len(res.args) : Inst(res.args[i]) = res.before[i]
\* q with the members at positions i and j exchanged
Swap(q, i, j) ==
    [k \in 1..Len(q) |-> IF k = i THEN q[j] ELSE IF k = j THEN q[i] ELSE q[k]]

\* ------------------------------------------------------------------ C3
\* C3 as stated: on every backing, iteroiditems yields the keys ascending.
C3_AscendingOnEveryBacking ==
    res.op = "iteroiditems" => Ascending(res.out.keys)

\* C3 as amended: iteroiditems yields every key of the map exactly once,
\* each with its value; on the BTree backing the keys come ascending,
\* whatever the insertion order; on the dict fallback they come in the
\* dict's own iteration order, which need not be ascending.
C3_AscendingOnBTreeOnly ==
    res.op = "iteroiditems" =>
        LET M == res.before[1] IN
        /\ res.raised = "None"
        /\ Len(res.out.keys) = Cardinality(KeySet(M))
        /\ Len(res.out.vals) = Len(res.out.keys)
        /\ {res.out.keys[i] : i \in 1..Len(res.out.keys)} = KeySet(M)
        /\ \A i \in 1..Len(res.out.keys) :
               res.out.vals[i] = Content(M)[res.out.keys[i]]
        /\ M.kind \in {"LLBTree", "LOBTree"} => Ascending(res.out.keys)
        /\ M.kind = "dict" => res.out.keys = M.keys

C3_Witness ==
    /\ res.op = "iteroiditems"
    /\ res.before[1].kind = "LLBTree"
    /\ res.out.keys = <<0, 2>>
    /\ res.out.vals = <<1, 2>>

\* ------------------------------------------------------------------ C4
\* C4: OidTMap_difference(A, B) and OidSet_difference(A, B) raise nothing
\* and return the keys of A that B does not hold, each once, a map result
\* with A's values; the result is empty for B = A, has A's contents for an
\* empty B, and A and B are as they were.
C4_Difference ==
    res.op \in {"OidTMap_difference", "OidSet_difference"} =>
        LET A == res.before[1]
            B == res.before[2]
        IN
        /\ res.raised = "None"
        /\ KeySet(res.out) = KeySet(A) \ KeySet(B)
        /\ NoDuplicates(res.out)
        /\ IsMap(A) = IsMap(res.out)
        /\ IsMap(A) => \A k \in KeySet(res.out) : Content(res.out)[k] = Content(A)[k]
        /\ res.args[1] = res.args[2] => res.out.keys = <<>>
        /\ B.keys = <<>> => Content(res.out) = Content(A)
        /\ ArgsUntouched

C4_Witness ==
    /\ res.op = "OidTMap_difference"
    /\ res.before[1].kind = "dict"
    /\ KeySet(res.before[1]) = {0, 2}
    /\ KeySet(res.before[2]) = {2}
    /\ Content(res.before[1])[0] # Content(res.before[2])[2]
    /\ KeySet(res.out) = {0}

\* ------------------------------------------------------------------ C6
\* C6: OidTMap_multiunion(seq) raises nothing and returns a set holding
\* exactly the elements of the members of seq: empty for an empty seq, A's
\* elements for [A], the same with any two members of seq exchanged (and so,
\* every sequence being called with, for every permutation of seq) and for
\* every split of seq into two groups united first; seq's members are as
\* they were.
C6_Multiunion ==
    res.op = "OidTMap_multiunion" =>
        LET n == Len(res.before)
            U(q) == OidTMap_multiunion(mod, q).out
        IN
        /\ res.raised = "None"
        /\ ~IsMap(res.out)
        /\ NoDuplicates(res.out)
        /\ KeySet(res.out) = UNION {KeySet(res.before[i]) : i \in 1..n}
        /\ n = 0 => res.out.keys = <<>>
        /\ n = 1 => KeySet(res.out) = KeySet(res.before[1])
        /\ \A i \in 1..n : \A j \in i + 1..n :
               KeySet(U(Swap(res.before, i, j))) = KeySet(res.out)
        /\ \A i \in 0..n :
               KeySet(U(<<U(SubSeq(res.before, 1, i)),
                          U(SubSeq(res.before, i + 1, n))>>)) = KeySet(res.out)
        /\ ArgsUntouched

C6_Witness ==
    /\ res.op = "OidTMap_multiunion"
    /\ res.args = <<"s", "t", "u">>
    /\ KeySet(res.before[1]) = {2}
    /\ KeySet(res.before[2]) = {0}
    /\ KeySet(res.before[3]) = {1}
    /\ KeySet(res.out) = {0, 1, 2}

\* ------------------------------------------------------------------ C7
\* C7: OidTMap_intersection(A, B), on maps and on sets, raises nothing and
\* returns exactly the keys both hold, each once; with the arguments
\* exchanged it returns the same keys; it is empty when B is empty.
C7_Intersection ==
    res.op = "OidTMap_intersection" =>
        LET A == res.before[1]
            B == res.before[2]
        IN
        /\ res.raised = "None"
        /\ KeySet(res.out) = KeySet(A) \cap KeySet(B)
        /\ NoDuplicates(res.out)
        /\ KeySet(OidTMap_intersection(mod, B, A).out) = KeySet(res.out)
        /\ B.keys = <<>> => res.out.keys = <<>>
        /\ ArgsUntouched

C7_Witness ==
    /\ res.op = "OidTMap_intersection"
    /\ IsMap(res.before[1])
    /\ KeySet(res.before[1]) = {0, 1}
    /\ KeySet(res.before[2]) = {1}
    /\ KeySet(res.out) = {1}

\* ------------------------------------------------------------------ C8
\* C8: OidSet_discard(S, v) raises nothing whether or not v is in S; S is
\* left without v and with every other element it had (unchanged when it
\* did not hold v); discarding v once more raises nothing and changes
\* nothing.
C8_Discard ==
    res.op = "OidSet_discard" =>
        LET S0 == res.before[1]
            S1 == Inst(res.args[1])
            again == OidSet_discard(mod, S1, res.x)
        IN
        /\ res.raised = "None"
        /\ KeySet(S1) = KeySet(S0) \ {res.x}
        /\ NoDuplicates(S1)
        /\ res.x \notin KeySet(S0) => S1 = S0
        /\ again.raised = "None"
        /\ again.after[1] = S1

C8_Witness ==
    /\ res.op = "OidSet_discard"
    /\ res.before[1].kind = "LLTreeSet"
    /\ KeySet(res.before[1]) = {0, 2}
    /\ res.x = 1

\* ------------------------------------------------------------------ C9
\* C9: OidObjectMap_max_key(M) raises nothing, returns 0 for an empty M
\* and the greatest key of M otherwise, whatever the order the keys were
\* inserted in, and leaves M as it was.
C9_MaxKey ==
    res.op = "OidObjectMap_max_key" =>
        LET M == res.before[1] IN
        /\ res.raised = "None"
        /\ KeySet(M) = {} => res.num = 0
        /\ KeySet(M) # {} =>
              /\ res.num \in KeySet(M)
              /\ \A k \in KeySet(M) : k <= res.num
        /\ ArgsUntouched

C9_Witness ==
    /\ res.op = "OidObjectMap_max_key"
    /\ res.before[1].kind = "dict"
    /\ res.before[1].keys = <<2, 0>>
    /\ res.num = 2

\* ------------------------------------------ one writer, concurrent readers
\* Lines 98-101: the consumer reads and writes shared instances without a
\* lock of its own. A method of dict, of set or of a BTrees C class runs to
\* its end without another thread running in between; a method of a
\* pure-Python BTrees class is interpreted code and another thread can run
\* between two of its statements: Bucket._set does keys.insert(i, k) and then
\* values.insert(i, v), Bucket._del does del keys[i] and then del values[i].
Atomic(c) == c.kind \notin PyClasses

\* the shared instance as the first part of a write leaves it
WriteBegun(c, op, k, v) ==
    IF op = "add" THEN SetAdd(c, k)
    ELSE IF op = "remove" THEN SetRemove(c, k).c
    ELSE IF Atomic(c) \/ (op = "setitem" /\ Has(c, k))
    THEN (IF op = "setitem" THEN SetItem(c, k, v) ELSE DelItem(c, k))
    ELSE IF op = "setitem"
    THEN [c EXCEPT !.keys = InsertAt(c.keys, Place(c, k), k)]
    ELSE [c EXCEPT !.keys = RemoveAt(c.keys, Index(c, k))]

\* ... and as the rest of the write leaves it
WriteEnded(c, op, k, v) ==
    IF Len(c.vals) = Len(c.keys) \/ ~IsMap(c) THEN c
    ELSE IF op = "setitem"
    THEN [c EXCEPT !.vals = InsertAt(c.vals, Index(c, k), v)]
    ELSE [c EXCEPT !.vals = RemoveAt(c.vals, Slot(c, k))]

\* a point lookup as the reader sees it: the value, 0 for an absent key (or
\* element), -1 for anything else the lookup does
Lookup(c, k) ==
    IF ~IsMap(c) THEN (IF Has(c, k) THEN 1 ELSE 0)
    ELSE LET g == GetItem(c, k) IN
         IF g.raised = "None" THEN g.val
         ELSE IF g.raised = "KeyError" THEN 0 ELSE -1

\* the shared instance of this family
Shared == IF family = "set" THEN s ELSE a
StoreShared(c) ==
    /\ a' = IF family = "set" THEN a ELSE c
    /\ s' = IF family = "set" THEN c ELSE s
    /\ UNCHANGED <<b, t, u>>

InitRW == InitInstances({"tidmap", "set"})

\* the writer enters m[k] = v, del m[k], s.add(k) or s.remove(k)
WriteCall ==
    \E op \in {"setitem", "delitem", "add", "remove"}, k \in Oids, v \in Tids :
        /\ wr.pc = "idle" /\ ~rd.did
        /\ (family = "set") = (op \in {"add", "remove"})
        /\ op \in {"setitem", "add"} => (Has(Shared, k) \/ Entries < MaxLen)
        /\ op \in {"delitem", "remove"} => Has(Shared, k)
        /\ op \in {"add", "remove"} => v = 1
        /\ wr' = [pc |-> "in_call", op |-> op, k |-> k,
                  v |-> IF op \in {"setitem", "add"} THEN v ELSE 0,
                  pre |-> [j \in Oids |-> Lookup(Shared, j)]]
        /\ StoreShared(WriteBegun(Shared, op, k, v))
        /\ UNCHANGED <<env, pc, mod, family, res, rd, df, hist>>

\* the writer's call comes back
WriteReturn ==
    /\ wr.pc = "in_call" /\ ~rd.did
    /\ StoreShared(WriteEnded(Shared, wr.op, wr.k, wr.v))
    /\ wr' = Idle
    /\ UNCHANGED <<env, pc, mod, family, res, rd, df, hist>>

\* a reader's point lookup of key k; beside what it saw it notes the key
\* the writer is at, if any, what its own key held before the writer's
\* operation began and what that operation makes of it
PointLookup ==
    \E k \in Oids :
        /\ ~rd.did
        /\ rd' = [did |-> TRUE, k |-> k, obs |-> Lookup(Shared, k),
                  wk |-> IF wr.pc = "in_call" THEN wr.k ELSE -1,
                  before |-> IF wr.pc = "in_call"
                             THEN wr.pre[k] ELSE Lookup(Shared, k),
                  after |-> IF wr.pc = "in_call" THEN wr.v ELSE 0]
        /\ UNCHANGED <<env, pc, mod, instVars, wr, df, hist>>

\* the reader takes its result
LookupReturn ==
    /\ rd.did
    /\ rd' = NoRead
    /\ UNCHANGED <<env, pc, mod, instVars, wr, df, hist>>

NextRW == WriteCall \/ WriteReturn \/ PointLookup \/ LookupReturn

SpecRW == InitRW /\ [][NextRW]_vars

\* ------------------------------------------------------------------ C2
\* C2: with one writer doing point writes on a shared map or set, a point
\* lookup of a key the writer is not at returns what the key held before
\* the writer's operation began (0: absent), and a lookup of the key the
\* writer is at returns what it held before or what the write makes of it;
\* no lookup returns anything else.
C2_LookupNeverTorn ==
    rd.did =>
        \/ rd.obs = rd.before
        \/ rd.k = rd.wk /\ rd.obs = rd.after

C2_Witness ==
    /\ rd.did
    /\ wr.pc = "in_call"
    /\ wr.op = "setitem"
    /\ wr.k = 0
    /\ wr.pre[0] = 0
    /\ rd.k = 1
    /\ rd.obs = 2

\* ------------------------- difference(a, b) while another thread writes
\* The consumer fills a and b and one thread calls OidTMap_difference(a, b).
\* That thread runs the statements of the function
\* one at a time; between any two of them another thread may do a point
\* write on a or on b. dict(c1), set(c1) and set(c2) each run to their end
\* in one piece; the comprehension reads only the function's locals. The
\* BTrees function is one call into the C extension.
\* hist.a is what a held when line 126 ran, hist.b what b held when set(c2)
\* ran (for the BTrees function: when the call ran).
InitDiff == InitInstances({"tidmap"})

\* the consumer fills a and b before the call
Prepare ==
    \E n \in {"a", "b"}, k \in Oids, v \in Tids :
        /\ df.pc = "idle"
        /\ ~Has(Inst(n), k) /\ Entries < MaxPre
        /\ Store(n, SetItem(Inst(n), k, v))
        /\ UNCHANGED <<env, pc, mod, family, res, thrVars>>

\* line 106 as a whole, or line 126
DiffCall ==
    /\ df.pc = "idle"
    /\ IF mod.algebra = "BTrees"
       THEN /\ df' = [df EXCEPT !.pc = "done",
                                !.out = OidTMap_difference(mod, a, b).out,
                                !.raised = OidTMap_difference(mod, a, b).raised]
            /\ hist' = [a |-> Content(a), b |-> Content(b)]
       ELSE /\ df' = [df EXCEPT !.pc = "copied", !.c1 = Line126(a)]
            /\ hist' = [hist EXCEPT !.a = Content(a)]
    /\ UNCHANGED <<env, pc, mod, instVars, wr, rd>>

\* line 127: set(c1)
DiffSet1 ==
    /\ df.pc = "copied"
    /\ df' = [df EXCEPT !.pc = "set1", !.s1 = set_new(Resolve(df.c1, a))]
    /\ UNCHANGED <<env, pc, mod, instVars, wr, rd, hist>>

\* line 127: set(c2)
DiffSet2 ==
    /\ df.pc = "set1"
    /\ df' = [df EXCEPT !.pc = "set2", !.s2 = set_new(b)]
    /\ hist' = [hist EXCEPT !.b = Content(b)]
    /\ UNCHANGED <<env, pc, mod, instVars, wr, rd>>

\* line 127: the subtraction and the comprehension over its result
DiffComp ==
    /\ df.pc = "set2"
    /\ LET d == DictComp(Resolve(df.c1, a), set_sub(df.s1, df.s2).keys, New("dict"))
       IN  df' = [df EXCEPT !.pc = "done", !.out = d.out, !.raised = d.raised]
    /\ UNCHANGED <<env, pc, mod, instVars, wr, rd, hist>>

\* another thread's point insert, update or delete on a or b during the call
Mutate ==
    \E n \in {"a", "b"}, k \in Oids, v \in Tids, del \in BOOLEAN :
        /\ df.pc \in {"copied", "set1", "set2"}
        /\ df.muts < MaxMut
        /\ IF del THEN Has(Inst(n), k) /\ v = 1
                  ELSE Has(Inst(n), k) \/ Entries < MaxLen
        /\ Store(n, IF del THEN DelItem(Inst(n), k) ELSE SetItem(Inst(n), k, v))
        /\ df' = [df EXCEPT !.muts = @ + 1]
        /\ UNCHANGED <<env, pc, mod, family, res, wr, rd, hist>>

NextDiff ==
    \/ Prepare \/ DiffCall \/ DiffSet1 \/ DiffSet2 \/ DiffComp \/ Mutate

SpecDiff == InitDiff /\ [][NextDiff]_vars

\* ------------------------------------------------------------------ C5
\* C5: whatever point writes another thread does on a or b during
\* difference(a, b), the call raises nothing and returns a map holding
\* exactly the keys of S1 that S2 does not hold, with S1's values, where S1
\* is what a held at one instant of the call (when line 126 copied it) and
\* S2 what b held at one instant of the call (when set(c2) read it).
C5_DifferenceUnderWrites ==
    df.pc = "done" =>
        /\ df.raised = "None"
        /\ IsMap(df.out)
        /\ NoDuplicates(df.out)
        /\ Content(df.out) =
               [k \in (DOMAIN hist.a) \ (DOMAIN hist.b) |-> hist.a[k]]

C5_Witness ==
    /\ df.pc = "done"
    /\ df.muts > 0
    /\ a.kind = "dict"
    /\ Content(a) # hist.a
    /\ df.out.keys # <<>>

====
